---- MODULE Spec2Model ----
(***************************************************************************)
(* Model of the Userbase flat-file record store (src/index.js).            *)
(*                                                                         *)
(* A JavaScript string is a sequence of one-character strings.  A          *)
(* JavaScript object is an ordered map: a sequence of [k, v] pairs with    *)
(* distinct keys, in insertion order (the order Object.keys and            *)
(* JSON.stringify walk).  The root file is a sequence of JSON tokens.      *)
(***************************************************************************)
EXTENDS Integers, Sequences, FiniteSets, TLC

VARIABLES
    state,      \* "unloaded" | "loaded" | "failed" (constructor threw)
    data,       \* this.data: the in-memory sequence of records
    exists,     \* fs.existsSync(rootFile)
    file,       \* content of the root file, a sequence of JSON tokens
    last,       \* the call that has just returned: its name, arguments and
                \* result; NoCall once the caller has taken the result
    other       \* a second Userbase instance of the same process: its fields,
                \* and which of the two instances the calls go through

vars == <<state, data, exists, file, last, other>>

----------------------------------------------------------------------------
(* Bounds *)

\* add is not called on a store that already holds this many records
MaxRecords == 3

\* the same, when add is called with the full set of field specs
MaxAddRecords == 2

\* the same, for each of two instances on one root file
MaxSharedRecords == 1

----------------------------------------------------------------------------
(* Strings and character classes *)

Letters == {"a", "f"}
Digits == {"0", "1"}
Spaces == {" "}

\* the value of a missing property (user[key] when key is not in user)
Undefined == <<"undefined">>

RECURSIVE SeqToSet(_)
SeqToSet(s) == IF s = <<>> THEN {} ELSE {Head(s)} \cup SeqToSet(Tail(s))

----------------------------------------------------------------------------
(* Objects: ordered maps *)

ObjHas(o, key) == \E i \in 1..Len(o) : o[i].k = key

ObjGet(o, key) ==
    IF ObjHas(o, key)
    THEN o[CHOOSE i \in 1..Len(o) : o[i].k = key].v
    ELSE Undefined

\* o[key] = val: an existing key keeps its position, a new key goes last
ObjSet(o, key, val) ==
    IF ObjHas(o, key)
    THEN [i \in 1..Len(o) |-> IF o[i].k = key THEN [k |-> key, v |-> val] ELSE o[i]]
    ELSE Append(o, [k |-> key, v |-> val])

ObjKeys(o) == [i \in 1..Len(o) |-> o[i].k]

----------------------------------------------------------------------------
(* JSON.stringify and JSON.parse over token sequences *)

Tok(t) == [t |-> t, s |-> <<>>]
StrTok(s) == [t |-> "str", s |-> s]

RECURSIVE StringifyPairs(_)
StringifyPairs(o) ==
    IF o = <<>> THEN <<>>
    ELSE <<StrTok(Head(o).k), Tok(":"), StrTok(Head(o).v)>>
         \o (IF Tail(o) = <<>> THEN <<>> ELSE <<Tok(",")>>)
         \o StringifyPairs(Tail(o))

StringifyObject(o) == <<Tok("{")>> \o StringifyPairs(o) \o <<Tok("}")>>

RECURSIVE StringifyElems(_)
StringifyElems(d) ==
    IF d = <<>> THEN <<>>
    ELSE StringifyObject(Head(d))
         \o (IF Tail(d) = <<>> THEN <<>> ELSE <<Tok(",")>>)
         \o StringifyElems(Tail(d))

JSONstringify(d) == <<Tok("[")>> \o StringifyElems(d) \o <<Tok("]")>>

TokAt(ts, p) == IF p <= Len(ts) THEN ts[p].t ELSE "eof"

ParseFail == [ok |-> FALSE, val |-> <<>>, pos |-> 0]

\* members of an object from position p, after "{" or ","
RECURSIVE ParseMembers(_, _, _)
ParseMembers(ts, p, o) ==
    IF TokAt(ts, p) = "str" /\ TokAt(ts, p + 1) = ":" /\ TokAt(ts, p + 2) = "str"
    THEN LET o2 == ObjSet(o, ts[p].s, ts[p + 2].s) IN
         IF TokAt(ts, p + 3) = "," THEN ParseMembers(ts, p + 4, o2)
         ELSE IF TokAt(ts, p + 3) = "}" THEN [ok |-> TRUE, val |-> o2, pos |-> p + 4]
         ELSE ParseFail
    ELSE ParseFail

ParseObject(ts, p) ==
    IF TokAt(ts, p) # "{" THEN ParseFail
    ELSE IF TokAt(ts, p + 1) = "}" THEN [ok |-> TRUE, val |-> <<>>, pos |-> p + 2]
    ELSE ParseMembers(ts, p + 1, <<>>)

\* elements of the array from position p, after "[" or ","
RECURSIVE ParseElems(_, _, _)
ParseElems(ts, p, d) ==
    LET r == ParseObject(ts, p) IN
    IF ~r.ok THEN ParseFail
    ELSE IF TokAt(ts, r.pos) = "," THEN ParseElems(ts, r.pos + 1, Append(d, r.val))
    ELSE IF TokAt(ts, r.pos) = "]"
         THEN [ok |-> TRUE, val |-> Append(d, r.val), pos |-> r.pos + 1]
    ELSE ParseFail

\* a parse that gives the empty array for content it cannot read
JSONparseOrEmpty(ts) ==
    IF TokAt(ts, 1) = "[" /\ TokAt(ts, 2) = "]" /\ Len(ts) = 2
    THEN [ok |-> TRUE, val |-> <<>>, pos |-> 3]
    ELSE LET r == IF TokAt(ts, 1) = "[" THEN ParseElems(ts, 2, <<>>) ELSE ParseFail
         IN IF r.ok /\ r.pos = Len(ts) + 1 THEN r
            ELSE [ok |-> TRUE, val |-> <<>>, pos |-> Len(ts) + 1]

JSONparse(ts) ==
    LET r == IF TokAt(ts, 1) # "[" THEN ParseFail
             ELSE IF TokAt(ts, 2) = "]" THEN [ok |-> TRUE, val |-> <<>>, pos |-> 3]
             ELSE ParseElems(ts, 2, <<>>)
    IN IF r.ok /\ r.pos = Len(ts) + 1 THEN r ELSE ParseFail

----------------------------------------------------------------------------
(* Rule sets.  A rule parameter is [set, val]: set is FALSE when the key is *)
(* absent from the rules object (it reads as undefined).                    *)

NoParam(default) == [set |-> FALSE, val |-> default]
Param(v) == [set |-> TRUE, val |-> v]

\* if (x !== undefined) in place of if (x)
TruthyNumIfSet(p) == p.set

\* if (x) for a number, a string and a boolean parameter
TruthyNum(p) == p.set /\ p.val # 0
TruthyStr(p) == p.set /\ p.val # ""
TruthyBool(p) == p.set /\ p.val

PatAlnum == "^[a-zA-Z0-9]+$"

\* value.match(pattern): the pattern string compiled as a regular expression
RegexMatch(value, pattern) ==
    CASE pattern = PatAlnum ->
            /\ Len(value) >= 1
            /\ \A i \in 1..Len(value) : value[i] \in Letters \cup Digits
      [] OTHER -> FALSE

HasChar(value, class) == \E i \in 1..Len(value) : value[i] \in class

fail(message) == [success |-> FALSE, message |-> message]

Passed == [success |-> TRUE, message |-> ""]

\* checkRules with the noLetters check moved before the noNumbers check
checkRulesLettersFirst(value, rules) ==
    IF TruthyNum(rules.minLength) /\ Len(value) < rules.minLength.val
    THEN fail("Value must be at least " \o ToString(rules.minLength.val) \o " characters long!")
    ELSE IF TruthyNum(rules.maxLength) /\ Len(value) > rules.maxLength.val
    THEN fail("Value must be at most " \o ToString(rules.maxLength.val) \o " characters long!")
    ELSE IF TruthyStr(rules.match) /\ ~RegexMatch(value, rules.match.val)
    THEN fail("Value must match the following regex: " \o rules.match.val)
    ELSE IF TruthyBool(rules.noSpaces) /\ HasChar(value, Spaces)
    THEN fail("Value must not contain any spaces!")
    ELSE IF TruthyBool(rules.noSpecialCharacters)
            /\ \E i \in 1..Len(value) : value[i] \notin Letters \cup Digits
    THEN fail("Value must not contain any special characters!")
    ELSE IF TruthyBool(rules.noLetters) /\ HasChar(value, Letters)
    THEN fail("Value must not contain any letters!")
    ELSE IF TruthyBool(rules.noNumbers) /\ HasChar(value, Digits)
    THEN fail("Value must not contain any numbers!")
    ELSE Passed

checkRules(value, rules) ==
    IF TruthyNum(rules.minLength) /\ Len(value) < rules.minLength.val
    THEN fail("Value must be at least " \o ToString(rules.minLength.val) \o " characters long!")
    ELSE IF TruthyNum(rules.maxLength) /\ Len(value) > rules.maxLength.val
    THEN fail("Value must be at most " \o ToString(rules.maxLength.val) \o " characters long!")
    ELSE IF TruthyStr(rules.match) /\ ~RegexMatch(value, rules.match.val)
    THEN fail("Value must match the following regex: " \o rules.match.val)
    ELSE IF TruthyBool(rules.noSpaces) /\ HasChar(value, Spaces)
    THEN fail("Value must not contain any spaces!")
    ELSE IF TruthyBool(rules.noSpecialCharacters)
            /\ \E i \in 1..Len(value) : value[i] \notin Letters \cup Digits
    THEN fail("Value must not contain any special characters!")
    ELSE IF TruthyBool(rules.noNumbers) /\ HasChar(value, Digits)
    THEN fail("Value must not contain any numbers!")
    ELSE IF TruthyBool(rules.noLetters) /\ HasChar(value, Letters)
    THEN fail("Value must not contain any letters!")
    ELSE Passed

----------------------------------------------------------------------------
(* Arguments.  An argument is [given, obj]: given is FALSE when the caller  *)
(* passes nothing (undefined), which is what "if (!input)" tests.           *)

Absent == [given |-> FALSE, obj |-> <<>>]
Arg(o) == [given |-> TRUE, obj |-> o]

----------------------------------------------------------------------------
(* Userbase.get.  The records it returns are the objects of this.data       *)
(* themselves; a reference to one is its index in d.                        *)

\* the filter callback with found assigned, not cleared, at every key
FoundLastKey(user, input) ==
    \/ input = <<>>
    \/ ObjGet(user, input[Len(input)].k) = input[Len(input)].v

\* the filter callback: every key of input has a strictly equal value in user
Found(user, input) ==
    \A i \in 1..Len(input) : ~(ObjGet(user, input[i].k) # input[i].v)

RECURSIVE FilterRefs(_, _, _)
FilterRefs(d, input, i) ==
    IF i > Len(d) THEN <<>>
    ELSE (IF Found(d[i], input) THEN <<i>> ELSE <<>>) \o FilterRefs(d, input, i + 1)

AllRefs(d) == [i \in 1..Len(d) |-> i]

get(d, input) == IF ~input.given THEN AllRefs(d) ELSE FilterRefs(d, input.obj, 1)

Deref(d, refs) == [i \in 1..Len(refs) |-> d[refs[i]]]

----------------------------------------------------------------------------
(* Userbase.add *)

\* AddKey with the duplicate check as the else branch of the rules check
AddKeyElseIf(d, acc, f) ==
    LET tryCheck == checkRules(f.value, f.rules) IN
    IF f.hasRules
    THEN IF ~tryCheck.success
         THEN [acc EXCEPT !.failed = tryCheck.message]
         ELSE [acc EXCEPT !.user = ObjSet(acc.user, f.k, f.value)]
    ELSE IF f.noDuplicate
            /\ \E i \in 1..Len(d) : ObjGet(d[i], f.k) = f.value
    THEN [acc EXCEPT !.failed = "A user with this " \o f.k \o " already exists!"]
    ELSE [acc EXCEPT !.user = ObjSet(acc.user, f.k, f.value)]

\* AddKey with the duplicate looked for in the first record only
AddKeyFirstRecord(d, acc, f) ==
    LET tryCheck == checkRules(f.value, f.rules) IN
    IF f.hasRules /\ ~tryCheck.success
    THEN [acc EXCEPT !.failed = tryCheck.message]
    ELSE IF f.noDuplicate /\ Len(d) > 0 /\ ObjGet(d[1], f.k) = f.value
    THEN [acc EXCEPT !.failed = "A user with this " \o f.k \o " already exists!"]
    ELSE [acc EXCEPT !.user = ObjSet(acc.user, f.k, f.value)]

\* one call of the forEach callback; acc is [user, failed], failed "" is null
AddKey(d, acc, f) ==
    LET tryCheck == checkRules(f.value, f.rules) IN
    IF f.hasRules /\ ~tryCheck.success
    THEN [acc EXCEPT !.failed = tryCheck.message]
    ELSE IF f.noDuplicate
            /\ Len(get(d, Arg(<<[k |-> f.k, v |-> f.value]>>))) > 0
    THEN [acc EXCEPT !.failed = "A user with this " \o f.k \o " already exists!"]
    ELSE [acc EXCEPT !.user = ObjSet(acc.user, f.k, f.value)]

RECURSIVE AddKeys(_, _, _)
AddKeys(d, acc, fields) ==
    IF fields = <<>> THEN acc
    ELSE AddKeys(d, AddKey(d, acc, Head(fields)), Tail(fields))

RECURSIVE CopyFields(_, _)
CopyFields(user, fields) ==
    IF fields = <<>> THEN user
    ELSE CopyFields(ObjSet(user, Head(fields).k, Head(fields).value), Tail(fields))

\* add with the record pushed before the failure is looked at
addPushFirst(d, input, token, id) ==
    LET failed == \E i \in 1..Len(input) :
                     \/ input[i].hasRules
                        /\ ~checkRules(input[i].value, input[i].rules).success
                     \/ input[i].noDuplicate
                        /\ \E j \in 1..Len(d) : ObjGet(d[j], input[i].k) = input[i].value
        user == ObjSet(ObjSet(CopyFields(<<>>, input), "token", token), "id", id)
    IN IF failed
       THEN [ret |-> fail("failed"), user |-> <<>>, data |-> Append(d, user),
             saved |-> FALSE]
       ELSE [ret |-> Passed, user |-> user, data |-> Append(d, user), saved |-> TRUE]

\* add with token and id assigned before the fields are copied
addReservedFirst(d, input, token, id) ==
    LET failed == \E i \in 1..Len(input) :
                     \/ input[i].hasRules
                        /\ ~checkRules(input[i].value, input[i].rules).success
                     \/ input[i].noDuplicate
                        /\ \E j \in 1..Len(d) : ObjGet(d[j], input[i].k) = input[i].value
        user == CopyFields(ObjSet(ObjSet(<<>>, "token", token), "id", id), input)
    IN IF failed
       THEN [ret |-> fail("failed"), user |-> <<>>, data |-> d, saved |-> FALSE]
       ELSE [ret |-> Passed, user |-> user, data |-> Append(d, user), saved |-> TRUE]

\* add with token and id generated only where the field spec gave none
addKeepsGiven(d, input, token, id) ==
    LET acc == AddKeys(d, [user |-> <<>>, failed |-> ""], input)
        withToken == IF ObjHas(acc.user, "token") THEN acc.user
                     ELSE ObjSet(acc.user, "token", token)
        user == IF ObjHas(withToken, "id") THEN withToken ELSE ObjSet(withToken, "id", id)
    IN IF acc.failed # ""
       THEN [ret |-> fail(acc.failed), user |-> <<>>, data |-> d, saved |-> FALSE]
       ELSE [ret |-> Passed, user |-> user, data |-> Append(d, user), saved |-> TRUE]

\* the result of add(input) with the generator returning token and id:
\* [ret, data, saved]
add(d, input, token, id) ==
    LET acc == AddKeys(d, [user |-> <<>>, failed |-> ""], input)
        user == ObjSet(ObjSet(acc.user, "token", token), "id", id)
    IN IF acc.failed # ""
       THEN [ret |-> fail(acc.failed), user |-> <<>>, data |-> d, saved |-> FALSE]
       ELSE [ret |-> Passed, user |-> user, data |-> Append(d, user), saved |-> TRUE]

----------------------------------------------------------------------------
(* Userbase.remove *)

\* the index the record had when get returned it
indexOfStale(work, ref) == IF ref <= Len(work) THEN ref ELSE 0

\* this.data.indexOf(user) on the records tagged with their references;
\* 0 stands for JavaScript's -1
indexOf(work, ref) ==
    IF \E i \in 1..Len(work) : work[i].ref = ref
    THEN CHOOSE i \in 1..Len(work) :
            /\ work[i].ref = ref
            /\ \A j \in 1..(i - 1) : work[j].ref # ref
    ELSE 0

\* this.data.splice(idx, 1); a negative index counts from the end
splice(work, idx) ==
    LET at == IF idx = 0 THEN Len(work) ELSE idx IN
    IF work = <<>> THEN work
    ELSE SubSeq(work, 1, at - 1) \o SubSeq(work, at + 1, Len(work))

RECURSIVE SpliceEach(_, _)
SpliceEach(work, users) ==
    IF users = <<>> THEN work
    ELSE SpliceEach(splice(work, indexOf(work, Head(users))), Tail(users))

\* remove with this.save() called before the early return
removeSaveFirst(d, input) ==
    LET hit(i) == \A k \in 1..Len(input.obj) :
                     ObjGet(d[i], input.obj[k].k) = input.obj[k].v
        keep == {i \in 1..Len(d) : ~hit(i)}
        IndexOfKept(n) == CHOOSE i \in keep : Cardinality({j \in keep : j < i}) = n - 1
    IN [ret |-> \E i \in 1..Len(d) : hit(i),
        data |-> [n \in 1..Cardinality(keep) |-> d[IndexOfKept(n)]],
        saved |-> TRUE]

\* [ret, data, saved]
remove(d, input) ==
    LET users == get(d, input)
        work == [i \in 1..Len(d) |-> [ref |-> i, obj |-> d[i]]]
        left == SpliceEach(work, users)
    IN IF Len(users) = 0
       THEN [ret |-> FALSE, data |-> d, saved |-> FALSE]
       ELSE [ret |-> TRUE, data |-> [i \in 1..Len(left) |-> left[i].obj],
             saved |-> TRUE]

----------------------------------------------------------------------------
(* Userbase.modify *)

RECURSIVE Assign(_, _)
Assign(user, patch) ==
    IF patch = <<>> THEN user
    ELSE Assign(ObjSet(user, Head(patch).k, Head(patch).v), Tail(patch))

\* modify that patches users[0] alone
modifyFirstOnly(d, find, patch) ==
    LET hit(i) == \A k \in 1..Len(find.obj) :
                     ObjGet(d[i], find.obj[k].k) = find.obj[k].v
        first(i) == hit(i) /\ \A j \in 1..(i - 1) : ~hit(j)
    IN IF ~\E i \in 1..Len(d) : hit(i)
       THEN [ret |-> FALSE, data |-> d, saved |-> FALSE]
       ELSE [ret |-> TRUE,
             data |-> [i \in 1..Len(d) |->
                         IF first(i) THEN Assign(d[i], patch.obj) ELSE d[i]],
             saved |-> TRUE]

\* modify without the call of this.save()
modifyNoSave(d, find, patch) ==
    LET hit(i) == \A k \in 1..Len(find.obj) :
                     ObjGet(d[i], find.obj[k].k) = find.obj[k].v
    IN IF ~\E i \in 1..Len(d) : hit(i)
       THEN [ret |-> FALSE, data |-> d, saved |-> FALSE]
       ELSE [ret |-> TRUE,
             data |-> [i \in 1..Len(d) |->
                         IF hit(i) THEN Assign(d[i], patch.obj) ELSE d[i]],
             saved |-> FALSE]

\* [ret, data, saved]
modify(d, find, patch) ==
    LET users == get(d, find) IN
    IF Len(users) = 0
    THEN [ret |-> FALSE, data |-> d, saved |-> FALSE]
    ELSE [ret |-> TRUE,
          data |-> [i \in 1..Len(d) |->
                      IF \E j \in 1..Len(users) : users[j] = i
                      THEN Assign(d[i], patch.obj) ELSE d[i]],
          saved |-> TRUE]

----------------------------------------------------------------------------
(* Inputs *)

Values == {<<"a">>, <<"a", "1">>}

\* what crypto.randomBytes(n).toString('hex') can return
IDs == {<<"0", "a">>, <<"1", "f">>}
Tokens == {<<"a", "0">>, <<"f", "1">>}
OneToken == {<<"a", "0">>}

RootFiles == {"", "db.json"}

NoRules ==
    [minLength |-> NoParam(0), maxLength |-> NoParam(0), match |-> NoParam(""),
     noSpaces |-> NoParam(FALSE), noSpecialCharacters |-> NoParam(FALSE),
     noNumbers |-> NoParam(FALSE), noLetters |-> NoParam(FALSE)]

\* the rules a field of add's input may declare
RulesOf(key) ==
    IF key = "name" THEN [NoRules EXCEPT !.minLength = Param(2)]
    ELSE [NoRules EXCEPT !.noNumbers = Param(TRUE)]

\* the ordered maps of at most n entries with distinct keys
RECURSIVE Objs(_, _, _)
Objs(keys, vals, n) ==
    IF n = 0 THEN {<<>>}
    ELSE LET shorter == Objs(keys, vals, n - 1) IN
         shorter \cup
         { o \in { Append(x, [k |-> key, v |-> val]) :
                     x \in {y \in shorter : Len(y) = n - 1},
                     key \in keys, val \in vals } :
             \A i \in 1..(n - 1) : o[i].k # o[n].k }

Pair(key, val) == <<[k |-> key, v |-> val]>>

Filters ==
    Objs({"name"}, Values, 1) \cup Objs({"id"}, IDs, 1)
    \cup {Pair("name", <<"a">>) \o Pair("id", i) : i \in IDs}

NamePatches == Objs({"name"}, Values, 1)

Patches ==
    NamePatches \cup Objs({"id", "token"}, {<<"a">>}, 1)
    \cup {Pair("name", <<"a", "1">>) \o Pair("id", <<"a">>)}

FewFilters == {Pair("name", v) : v \in Values}
FewPatches == {Pair("name", <<"a">>)}

Field(key, val, nd, hr) ==
    [k |-> key, value |-> val, noDuplicate |-> nd, hasRules |-> hr,
     rules |-> IF hr THEN RulesOf(key) ELSE NoRules]

Fields(keys) ==
    {Field(key, val, nd, hr) : key \in keys, val \in Values, nd \in BOOLEAN, hr \in BOOLEAN}

FieldSpecs ==
    {<<>>} \cup {<<f>> : f \in Fields({"name", "id"})}
    \cup {<<Field("token", <<"a">>, FALSE, FALSE)>>,
          <<Field("name", <<"a">>, FALSE, FALSE), Field("token", <<"a">>, FALSE, FALSE)>>}
    \cup {fg \in {<<f, g>> : f \in Fields({"name", "id"}), g \in Fields({"name", "id"})} :
            fg[1].k # fg[2].k}

\* field specs without rules and noDuplicate
NameSpecs == {<<Field("name", val, FALSE, FALSE)>> : val \in Values}
\* field specs that declare noDuplicate on name and on id, in either order
NoDuplicateSpecs ==
    LET names == {Field("name", val, TRUE, hr) : val \in Values, hr \in BOOLEAN}
        ids == {Field("id", val, TRUE, FALSE) : val \in Values \cup IDs}
    IN {<<f, g>> : f \in names, g \in ids} \cup {<<g, f>> : f \in names, g \in ids}
SimpleSpecs == {<<>>} \cup NameSpecs
OneSpec == {<<Field("name", <<"a", "1">>, FALSE, FALSE)>>}

\* a record as add leaves it in the file
InitRecord == Pair("name", <<"a">>) \o Pair("token", <<"a", "0">>)
              \o Pair("id", <<"0", "a">>)

\* contents that are not JSON: a truncated file, an empty file, a missing
\* bracket, a trailing comma
InvalidFiles ==
    { <<Tok("["), Tok("{")>>,
      <<>>,
      <<Tok("[")>> \o StringifyObject(InitRecord),
      <<Tok("[")>> \o StringifyObject(InitRecord) \o <<Tok(","), Tok("]")>> }

InitFiles ==
    { JSONstringify(<<>>),
      JSONstringify(<<InitRecord>>),
      \* valid JSON that is not what JSON.stringify writes: a repeated key
      <<Tok("["), Tok("{"), StrTok("name"), Tok(":"), StrTok(<<"a", "1">>), Tok(",")>>
        \o StringifyPairs(InitRecord) \o <<Tok("}"), Tok("]")>> }
    \cup InvalidFiles

----------------------------------------------------------------------------
(* The call that has just returned *)

NoRet == [threw |-> FALSE, success |-> FALSE, message |-> "", user |-> <<>>,
          users |-> <<>>]

NoCall == [op |-> "none", rootFile |-> "", input |-> Absent, modify |-> Absent,
           fields |-> Absent, token |-> <<>>, id |-> <<>>, ret |-> NoRet]

Threw == [NoRet EXCEPT !.threw = TRUE]

----------------------------------------------------------------------------
(* Userbase.save: fs.writeFileSync(this.rootFile, JSON.stringify(this.data)) *)

\* a save that writes what the constructor creates the file with
saveInitial(d) == JSONstringify(<<>>)

save(d) == JSONstringify(d)

----------------------------------------------------------------------------
(* The state machine *)

\* the second instance before its construction; calls go through the first;
\* added[i] is the set of records that add has stored through instance i,
\* held[i] the set of records that instance i has had in this.data
NoOther == [state |-> "unloaded", data |-> <<>>, active |-> 1,
            added |-> <<{}, {}>>, held |-> <<{}, {}>>]

Init ==
    /\ state = "unloaded"
    /\ data = <<>>
    /\ exists \in BOOLEAN
    /\ file \in (IF exists THEN InitFiles ELSE {<<>>})
    /\ last = NoCall
    /\ other = NoOther

\* new Userbase(rootFile)
Constructor ==
    \E rootFile \in RootFiles :
        /\ state = "unloaded"
        /\ last = NoCall
        /\ IF rootFile = ""
           THEN /\ state' = "failed"
                /\ UNCHANGED <<data, exists, file>>
           ELSE LET content == IF exists THEN file ELSE JSONstringify(<<>>)
                    parsed == JSONparse(content)
                IN /\ exists' = TRUE
                   /\ file' = content
                   /\ IF parsed.ok
                      THEN state' = "loaded" /\ data' = parsed.val
                      ELSE state' = "failed" /\ UNCHANGED data
        /\ last' = [NoCall EXCEPT !.op = "constructor", !.rootFile = rootFile,
                                  !.ret = IF state' = "failed" THEN Threw ELSE NoRet]

\* userbase.get(input)
Get(filters) ==
    \E input \in {Absent} \cup {Arg(o) : o \in filters} :
        /\ state = "loaded"
        /\ last = NoCall
        /\ last' = [NoCall EXCEPT !.op = "get", !.input = input,
                                  !.ret = [NoRet EXCEPT !.success = TRUE,
                                              !.users = Deref(data, get(data, input))]]
        /\ UNCHANGED <<state, data, exists, file>>

\* userbase.add(input)
Add(specs, tokens, max) ==
    \E input \in {Absent} \cup {Arg(o) : o \in specs}, token \in tokens, id \in IDs :
        /\ state = "loaded"
        /\ last = NoCall
        /\ Len(data) < max
        /\ IF ~input.given
           THEN /\ last' = [NoCall EXCEPT !.op = "add", !.ret = Threw]
                /\ UNCHANGED <<data, file>>
           ELSE LET r == add(data, input.obj, token, id) IN
                /\ data' = r.data
                /\ file' = IF r.saved THEN save(r.data) ELSE file
                /\ last' = [NoCall EXCEPT
                              !.op = "add", !.fields = input,
                              !.token = IF r.saved THEN token ELSE <<>>,
                              !.id = IF r.saved THEN id ELSE <<>>,
                              !.ret = [NoRet EXCEPT !.success = r.ret.success,
                                                    !.message = r.ret.message,
                                                    !.user = r.user]]
        /\ UNCHANGED <<state, exists>>

\* userbase.remove(input)
Remove(filters) ==
    \E input \in {Absent} \cup {Arg(o) : o \in filters} :
        /\ state = "loaded"
        /\ last = NoCall
        /\ IF ~input.given
           THEN /\ last' = [NoCall EXCEPT !.op = "remove", !.ret = Threw]
                /\ UNCHANGED <<data, file>>
           ELSE LET r == remove(data, input) IN
                /\ data' = r.data
                /\ file' = IF r.saved THEN save(r.data) ELSE file
                /\ last' = [NoCall EXCEPT !.op = "remove", !.input = input,
                                          !.ret = [NoRet EXCEPT !.success = r.ret]]
        /\ UNCHANGED <<state, exists>>

\* userbase.modify(find, modify)
Modify(filters, patches) ==
    \E find \in {Absent} \cup {Arg(o) : o \in filters},
       patch \in {Absent} \cup {Arg(o) : o \in patches} :
        /\ state = "loaded"
        /\ last = NoCall
        /\ IF ~find.given \/ ~patch.given
           THEN /\ last' = [NoCall EXCEPT !.op = "modify", !.input = find,
                                          !.modify = patch, !.ret = Threw]
                /\ UNCHANGED <<data, file>>
           ELSE LET r == modify(data, find, patch) IN
                /\ data' = r.data
                /\ file' = IF r.saved THEN save(r.data) ELSE file
                /\ last' = [NoCall EXCEPT !.op = "modify", !.input = find,
                                          !.modify = patch,
                                          !.ret = [NoRet EXCEPT !.success = r.ret]]
        /\ UNCHANGED <<state, exists>>

\* the caller takes the result of the call; the next call starts from here
Return ==
    /\ last # NoCall
    /\ last' = NoCall
    /\ UNCHANGED <<state, data, exists, file>>

\* every operation, with add given field specs without rules and noDuplicate
Next ==
    \/ Constructor /\ UNCHANGED other
    \/ Get(Filters) /\ UNCHANGED other
    \/ Add(SimpleSpecs, OneToken, MaxRecords) /\ UNCHANGED other
    \/ Remove(Filters) /\ UNCHANGED other
    \/ Modify(Filters, NamePatches) /\ UNCHANGED other
    \/ Return /\ UNCHANGED other

Spec == Init /\ [][Next]_vars

\* every operation, with add given every field spec
NextAdd ==
    \/ Constructor /\ UNCHANGED other
    \/ Get(FewFilters) /\ UNCHANGED other
    \/ Add(FieldSpecs, OneToken, MaxAddRecords) /\ UNCHANGED other
    \/ Remove(FewFilters) /\ UNCHANGED other
    \/ Modify(FewFilters, FewPatches) /\ UNCHANGED other
    \/ Return /\ UNCHANGED other

SpecAdd == Init /\ [][NextAdd]_vars

\* every operation, with modify given patches of the reserved fields too
NextModify ==
    \/ Constructor /\ UNCHANGED other
    \/ Get(FewFilters) /\ UNCHANGED other
    \/ Add(NameSpecs, Tokens, MaxAddRecords) /\ UNCHANGED other
    \/ Remove(FewFilters) /\ UNCHANGED other
    \/ Modify(Filters, Patches) /\ UNCHANGED other
    \/ Return /\ UNCHANGED other

SpecModify == Init /\ [][NextModify]_vars

----------------------------------------------------------------------------
(* Storage I/O errors: fs.writeFileSync throws out of save and out of the   *)
(* operation that called it.  The file is left as it was, or truncated      *)
(* (opened for writing, nothing written).                                   *)

FailedWrite(content) == {content, <<>>}

\* userbase.add(input) with the write failing
AddWriteFails(specs, tokens, max) ==
    \E input \in {Arg(o) : o \in specs}, token \in tokens, id \in IDs :
        LET r == add(data, input.obj, token, id) IN
        /\ state = "loaded"
        /\ last = NoCall
        /\ Len(data) < max
        /\ r.saved
        /\ data' = r.data
        /\ file' \in FailedWrite(file)
        /\ last' = [NoCall EXCEPT !.op = "add", !.fields = input, !.token = token,
                                  !.id = id, !.ret = Threw]
        /\ UNCHANGED <<state, exists>>

\* userbase.remove(input) with the write failing
RemoveWriteFails(filters) ==
    \E input \in {Arg(o) : o \in filters} :
        LET r == remove(data, input) IN
        /\ state = "loaded"
        /\ last = NoCall
        /\ r.saved
        /\ data' = r.data
        /\ file' \in FailedWrite(file)
        /\ last' = [NoCall EXCEPT !.op = "remove", !.input = input, !.ret = Threw]
        /\ UNCHANGED <<state, exists>>

\* userbase.modify(find, modify) with the write failing
ModifyWriteFails(filters, patches) ==
    \E find \in {Arg(o) : o \in filters}, patch \in {Arg(o) : o \in patches} :
        LET r == modify(data, find, patch) IN
        /\ state = "loaded"
        /\ last = NoCall
        /\ r.saved
        /\ data' = r.data
        /\ file' \in FailedWrite(file)
        /\ last' = [NoCall EXCEPT !.op = "modify", !.input = find, !.modify = patch,
                                  !.ret = Threw]
        /\ UNCHANGED <<state, exists>>

\* every operation, on a disk whose writes may fail
NextIO ==
    \/ Constructor /\ UNCHANGED other
    \/ Get(FewFilters) /\ UNCHANGED other
    \/ Add(NameSpecs, OneToken, MaxAddRecords) /\ UNCHANGED other
    \/ Remove(FewFilters) /\ UNCHANGED other
    \/ Modify(FewFilters, FewPatches) /\ UNCHANGED other
    \/ AddWriteFails(NameSpecs, OneToken, MaxAddRecords) /\ UNCHANGED other
    \/ RemoveWriteFails(FewFilters) /\ UNCHANGED other
    \/ ModifyWriteFails(FewFilters, FewPatches) /\ UNCHANGED other
    \/ Return /\ UNCHANGED other

SpecIO == Init /\ [][NextIO]_vars

----------------------------------------------------------------------------
(* Two Userbase instances constructed on the same root file.  Each has its  *)
(* own this.data; the file is the one thing they share.  state and data are *)
(* the fields of the instance the calls go through, other holds the fields  *)
(* of the instance at rest.                                                 *)

\* the caller turns to the other instance
Switch ==
    /\ last = NoCall
    /\ state' = other.state
    /\ data' = other.data
    /\ other' = [other EXCEPT !.state = state, !.data = data, !.active = 3 - @]
    /\ UNCHANGED <<exists, file, last>>

\* the records of d remembered as held by the instance in use
Held(o, d) == [o EXCEPT !.held[o.active] = @ \cup SeqToSet(d)]

\* add through the instance in use, the record it stored remembered
AddThrough(specs, tokens, max) ==
    /\ Add(specs, tokens, max)
    /\ other' = IF last'.ret.success
                THEN [Held(other, data') EXCEPT
                        !.added[other.active] = @ \cup {last'.ret.user}]
                ELSE other

NextShared ==
    \/ Constructor /\ other' = Held(other, data')
    \/ Get(FewFilters) /\ UNCHANGED other
    \/ AddThrough(OneSpec, OneToken, MaxSharedRecords)
    \/ Remove(FewFilters) /\ other' = Held(other, data')
    \/ Modify(FewFilters, FewPatches) /\ other' = Held(other, data')
    \/ Return /\ UNCHANGED other
    \/ Switch

SpecShared == Init /\ [][NextShared]_vars

----------------------------------------------------------------------------
(* A store that starts empty and is given add and remove calls only, every  *)
(* add declaring noDuplicate                                                *)

InitEmpty == Init /\ file \in {<<>>, JSONstringify(<<>>)}

NextNoDuplicate ==
    \/ Constructor /\ UNCHANGED other
    \/ Add(NoDuplicateSpecs, OneToken, MaxRecords) /\ UNCHANGED other
    \/ Remove(FewFilters) /\ UNCHANGED other
    \/ Return /\ UNCHANGED other

SpecNoDuplicate == InitEmpty /\ [][NextNoDuplicate]_vars

----------------------------------------------------------------------------
(* checkRules on its own: a value and a rule set are drawn, then checked    *)

\* the longest value checkRules is given
MaxValueLen == 2

\* a letter, a digit, a space and a special character
Chars == {"a", "1", " ", "!"}

RECURSIVE Strings(_)
Strings(n) ==
    IF n = 0 THEN {<<>>}
    ELSE Strings(n - 1) \cup
         {Append(v, c) : v \in {w \in Strings(n - 1) : Len(w) = n - 1}, c \in Chars}

Flags == {NoParam(FALSE), Param(FALSE), Param(TRUE)}

AllRuleSets ==
    [minLength : {NoParam(0), Param(0), Param(2)},
     maxLength : {NoParam(0), Param(0), Param(1)},
     match : {NoParam(""), Param(""), Param(PatAlnum)},
     noSpaces : Flags, noSpecialCharacters : Flags,
     noNumbers : Flags, noLetters : Flags]

InitRules ==
    /\ state = "unloaded"
    /\ data = <<>>
    /\ exists = FALSE
    /\ file = <<>>
    /\ last \in [op : {"input"}, value : Strings(MaxValueLen), rules : AllRuleSets,
                 ret : {fail("")}]
    /\ other = NoOther

\* checkRules(value, rules)
CheckRules ==
    /\ last.op = "input"
    /\ last' = [last EXCEPT !.op = "checkRules",
                            !.ret = checkRules(last.value, last.rules)]
    /\ UNCHANGED <<state, data, exists, file>>

NextRules == CheckRules /\ UNCHANGED other

SpecRules == InitRules /\ [][NextRules]_vars

----------------------------------------------------------------------------
(* What the claims are stated with *)

\* every key of filter is a key of rec, with the same value
Satisfies(rec, filter) ==
    \A i \in 1..Len(filter) :
        \E j \in 1..Len(rec) : rec[j].k = filter[i].k /\ rec[j].v = filter[i].v

\* the records of d that satisfy filter, in the order of d
Selected(d, filter) ==
    LET Test(rec) == Satisfies(rec, filter) IN SelectSeq(d, Test)

Rejected(d, filter) ==
    LET Test(rec) == ~Satisfies(rec, filter) IN SelectSeq(d, Test)

Returned(op) == last.op = op /\ ~last.ret.threw

\* the call that returns in this step
Returns(op) == last'.op = op /\ ~last'.ret.threw

Mutated ==
    /\ last.op \in {"add", "remove", "modify"}
    /\ last.ret.success

----------------------------------------------------------------------------
(* C1: once the store is loaded, after every call the root file parses to   *)
(* the in-memory record sequence (same records, same order, same key        *)
(* order), and after every successful add, remove and modify the file is    *)
(* exactly the serialization of the in-memory sequence.                     *)
FileMirrorsData ==
    state = "loaded" =>
        /\ exists
        /\ JSONparse(file).ok
        /\ JSONparse(file).val = data
        /\ Mutated => file = JSONstringify(data)

FileMirrorsData_Witness ==
    /\ state = "loaded"
    /\ Returned("modify")
    /\ last.ret.success
    /\ Len(data) = MaxRecords
    /\ \E i \in 1..Len(data) : Len(data[i]) = 3

(* C2: an add that returns a failure result leaves the in-memory sequence   *)
(* and the root file exactly as they were (nothing appended, no save).      *)
FailedAddChangesNothing ==
    [][(Returns("add") /\ ~last'.ret.success)
          => (data' = data /\ file' = file /\ last'.ret.message # "")]_vars

\* a failed add over a file that a save would have rewritten
FailedAddChangesNothing_Witness ==
    /\ Returned("add")
    /\ ~last.ret.success
    /\ Len(last.fields.obj) = 2
    /\ Len(data) = 1
    /\ file # JSONstringify(data)

\* the field passes its own checks against the store d
FieldPasses(d, f) ==
    /\ f.hasRules => checkRules(f.value, f.rules).success
    /\ f.noDuplicate =>
          ~\E i \in 1..Len(d) : \E j \in 1..Len(d[i]) :
                d[i][j].k = f.k /\ d[i][j].v = f.value

(* C3: add returns success exactly when every field that declares rules    *)
(* passes validation and every field that declares noDuplicate has no       *)
(* record in the store with a strictly equal value for that field;          *)
(* otherwise it returns a failure with a message.                           *)
AddSucceedsIffAllFieldsPass ==
    [][Returns("add") =>
          /\ last'.ret.success
                <=> \A i \in 1..Len(last'.fields.obj) : FieldPasses(data, last'.fields.obj[i])
          /\ ~last'.ret.success => last'.ret.message # ""]_vars

\* a failure caused by the first field alone, the second field passing
AddSucceedsIffAllFieldsPass_Witness ==
    /\ Returned("add")
    /\ ~last.ret.success
    /\ Len(last.fields.obj) = 2
    /\ ~FieldPasses(data, last.fields.obj[1])
    /\ FieldPasses(data, last.fields.obj[2])
    /\ last.fields.obj[1].noDuplicate
    /\ checkRules(last.fields.obj[1].value, last.fields.obj[1].rules).success

Plain(fields) ==
    \A i \in 1..Len(fields) : ~fields[i].hasRules /\ ~fields[i].noDuplicate

Reserved == {"id", "token"}

\* add appended the record it returns, with the generated id and token
AppendedFresh ==
    /\ last'.ret.success
    /\ data' = Append(data, last'.ret.user)
    /\ SeqToSet(ObjKeys(last'.ret.user))
          = {last'.fields.obj[i].k : i \in 1..Len(last'.fields.obj)} \cup Reserved
    /\ last'.id \in IDs
    /\ last'.token \in Tokens

(* C4 as stated: for a field spec without rules and noDuplicate, add        *)
(* succeeds, appends one record, and the returned record maps every field   *)
(* name of the spec to the field's input value, plus a generated id and     *)
(* token.                                                                   *)
PlainAddReturnsInput ==
    [][(Returns("add") /\ Plain(last'.fields.obj)) =>
          /\ AppendedFresh
          /\ \A i \in 1..Len(last'.fields.obj) :
                ObjGet(last'.ret.user, last'.fields.obj[i].k) = last'.fields.obj[i].value]_vars

(* C4 amended: for a field spec without rules and noDuplicate, add          *)
(* succeeds, appends one record, and the returned record maps every field   *)
(* name of the spec other than id and token to the field's input value,     *)
(* and id and token to the values generated in the call.                    *)
PlainAddReturnsInputExceptReserved ==
    [][(Returns("add") /\ Plain(last'.fields.obj)) =>
          /\ AppendedFresh
          /\ \A i \in 1..Len(last'.fields.obj) :
                last'.fields.obj[i].k \notin Reserved =>
                    ObjGet(last'.ret.user, last'.fields.obj[i].k) = last'.fields.obj[i].value
          /\ ObjGet(last'.ret.user, "id") = last'.id
          /\ ObjGet(last'.ret.user, "token") = last'.token]_vars

\* a plain spec with an ordinary field and a field named id
PlainAddReturnsInputExceptReserved_Witness ==
    /\ Returned("add")
    /\ last.ret.success
    /\ Plain(last.fields.obj)
    /\ Len(last.fields.obj) = 2
    /\ \E i \in 1..2 : last.fields.obj[i].k = "id"
    /\ Len(data) = 2

(* C5: get() returns every stored record in insertion order; get(filter)  *)
(* returns exactly the records that have, for every key of the filter, a    *)
(* strictly equal value (a record without the key does not match), in       *)
(* storage order; get changes neither the in-memory sequence nor the file,  *)
(* so the same call on the state it leaves returns the same records.        *)
GetSelectsExactly ==
    [][Returns("get") =>
          /\ data' = data
          /\ file' = file
          /\ last'.ret.users = IF last'.input.given
                               THEN Selected(data, last'.input.obj)
                               ELSE data
          /\ last'.ret.users = IF last'.input.given
                               THEN Selected(data', last'.input.obj)
                               ELSE data']_vars

\* a two-key filter that selects some records and not others, one of them
\* a record without the filtered key
GetSelectsExactly_Witness ==
    /\ Returned("get")
    /\ last.input.given
    /\ Len(last.input.obj) = 2
    /\ Len(last.ret.users) = 1
    /\ Len(data) = 3
    /\ \E i \in 1..Len(data) : ~ObjHas(data[i], "name")

(* C6: remove(filter) with N >= 1 matching records returns true and leaves  *)
(* exactly the previous sequence without the N matching records: N shorter, *)
(* every other record present, unchanged and in the same relative order.    *)
RemoveDeletesExactlyMatches ==
    [][(Returns("remove") /\ last'.input.given
            /\ Len(Selected(data, last'.input.obj)) >= 1) =>
          /\ last'.ret.success
          /\ data' = Rejected(data, last'.input.obj)
          /\ Len(data') = Len(data) - Len(Selected(data, last'.input.obj))
          /\ file' = JSONstringify(data')]_vars

\* a remove that left two different records of three behind
RemoveDeletesExactlyMatches_Witness ==
    /\ Returned("remove")
    /\ last.ret.success
    /\ last.input.obj # <<>>
    /\ Len(data) = 2
    /\ data[1] # data[2]

(* C7: remove with an empty filter (a filter with no keys) fails with an    *)
(* error and removes no record: the in-memory sequence and the file are     *)
(* unchanged.                                                               *)
EmptyFilterRemoveFails ==
    [][(last'.op = "remove" /\ last'.input.given /\ last'.input.obj = <<>>) =>
          /\ last'.ret.threw
          /\ data' = data
          /\ file' = file]_vars

InPatch(patch, key) == \E p \in 1..Len(patch) : patch[p].k = key

(* C8: modify(filter, patch) with at least one matching record returns      *)
(* true; every record that matched gets each key of the patch set to the    *)
(* patch's value and keeps its other fields; the other records, the number  *)
(* of records and their order are unchanged; and a get on the patch         *)
(* afterwards returns every record that was modified.                       *)
ModifyPatchesExactlyMatches ==
    [][(Returns("modify") /\ Len(Selected(data, last'.input.obj)) >= 1) =>
          /\ last'.ret.success
          /\ Len(data') = Len(data)
          /\ \A i \in 1..Len(data) :
                IF Satisfies(data[i], last'.input.obj)
                THEN /\ \A p \in 1..Len(last'.modify.obj) :
                            ObjGet(data'[i], last'.modify.obj[p].k) = last'.modify.obj[p].v
                     /\ \A j \in 1..Len(data[i]) :
                            InPatch(last'.modify.obj, data[i][j].k)
                                \/ ObjGet(data'[i], data[i][j].k) = data[i][j].v
                     /\ \E r \in 1..Len(get(data', last'.modify)) :
                            get(data', last'.modify)[r] = i
                ELSE data'[i] = data[i]]_vars

\* a two-key patch on the records named "a", carried by two different records
ModifyPatchesExactlyMatches_Witness ==
    /\ Returned("modify")
    /\ last.ret.success
    /\ last.input.obj = Pair("name", <<"a">>)
    /\ Len(last.modify.obj) = 2
    /\ Len(data) = 2
    /\ Len(Selected(data, last.modify.obj)) = 2
    /\ data[1] # data[2]

SameReserved(before, after) ==
    /\ ObjGet(after, "id") = ObjGet(before, "id")
    /\ ObjGet(after, "token") = ObjGet(before, "token")

(* C9: a record's id and token never change while the record is in the      *)
(* store: add and modify leave the id and token of every stored record as   *)
(* they were, and remove leaves the records it keeps as they were.          *)
ReservedFieldsImmutable ==
    [][/\ last'.op \in {"add", "modify", "get"} =>
            \A i \in 1..Len(data) : i <= Len(data') /\ SameReserved(data[i], data'[i])
       /\ last'.op = "remove" =>
            \A j \in 1..Len(data') : \E i \in 1..Len(data) : data[i] = data'[j]]_vars

(* C10: a remove or modify whose filter matches no record returns false,    *)
(* leaves the in-memory sequence unchanged and does not rewrite the file.   *)
NoMatchIsNoOp ==
    [][((Returns("remove") \/ Returns("modify")) /\ last'.input.given
            /\ Len(Selected(data, last'.input.obj)) = 0) =>
          /\ ~last'.ret.success
          /\ data' = data
          /\ file' = file]_vars

\* a remove that matched nothing, over a file that a save would have rewritten
NoMatchIsNoOp_Witness ==
    /\ Returned("remove")
    /\ last.input.given
    /\ ~last.ret.success
    /\ Len(data) = 1
    /\ file # JSONstringify(data)

(* C11: construction over a root file whose content is not valid JSON     *)
(* throws, the store stays unloaded for good (no operation runs on it) and  *)
(* the file keeps its content; construction over a file that does not       *)
(* exist creates it holding the empty array and gives a loaded store with   *)
(* an empty record sequence.                                                *)
ConstructorLoadsOrFails ==
    [][/\ (last'.op = "constructor" /\ last'.rootFile # "") =>
            /\ (exists /\ file \in InvalidFiles) =>
                  /\ last'.ret.threw
                  /\ state' = "failed"
                  /\ file' = file
                  /\ exists'
            /\ ~exists =>
                  /\ ~last'.ret.threw
                  /\ state' = "loaded"
                  /\ data' = <<>>
                  /\ exists'
                  /\ file' = <<Tok("["), Tok("]")>>
       /\ state = "failed" =>
            /\ state' = "failed"
            /\ data' = data
            /\ file' = file
            /\ last'.op = "none"]_vars

\* the constructor has thrown over a file with a record and a trailing comma
ConstructorLoadsOrFails_Witness ==
    /\ last.op = "constructor"
    /\ last.rootFile # ""
    /\ last.ret.threw
    /\ state = "failed"
    /\ exists
    /\ file \in InvalidFiles
    /\ Len(file) > Len(StringifyObject(InitRecord)) + 2

(* C12: no two distinct records of the store have the same id, in every    *)
(* state reached by add, remove and modify calls.                           *)
IdsAreUnique ==
    \A i, j \in 1..Len(data) :
        i # j => ObjGet(data[i], "id") # ObjGet(data[j], "id")

\* the message of the check that field f fails against the store d
FailureOf(d, f) ==
    IF f.hasRules /\ ~checkRules(f.value, f.rules).success
    THEN checkRules(f.value, f.rules).message
    ELSE "A user with this " \o f.k \o " already exists!"

(* C13: add aborts on the first failure in the iteration order of the       *)
(* field spec: a failed add returns the message of the first field that     *)
(* fails, whatever the fields after it would do.                            *)
FirstFailureIsReported ==
    [][(Returns("add") /\ ~last'.ret.success) =>
          LET fs == last'.fields.obj
              first == CHOOSE i \in 1..Len(fs) :
                          /\ ~FieldPasses(data, fs[i])
                          /\ \A j \in 1..(i - 1) : FieldPasses(data, fs[j])
          IN last'.ret.message = FailureOf(data, fs[first])]_vars

(* C14: every add, remove and modify call either changes nothing, or      *)
(* makes its in-memory change and leaves the file rewritten to match it,    *)
(* also when the write fails with an I/O error thrown to the caller.        *)
MutationIsAllOrNothing ==
    [][last'.op \in {"add", "remove", "modify"} =>
          \/ data' = data /\ file' = file
          \/ file' = JSONstringify(data')]_vars

RuleOrder == <<"minLength", "maxLength", "match", "noSpaces",
               "noSpecialCharacters", "noNumbers", "noLetters">>

\* the rule is present with a truthy parameter and the value violates it
Violated(rule, v, r) ==
    CASE rule = "minLength" ->
            r.minLength.set /\ r.minLength.val > 0 /\ Len(v) < r.minLength.val
      [] rule = "maxLength" ->
            r.maxLength.set /\ r.maxLength.val > 0 /\ Len(v) > r.maxLength.val
      [] rule = "match" ->
            /\ r.match = Param(PatAlnum)
            /\ v = <<>> \/ \E i \in 1..Len(v) : v[i] \in {" ", "!"}
      [] rule = "noSpaces" ->
            r.noSpaces = Param(TRUE) /\ \E i \in 1..Len(v) : v[i] = " "
      [] rule = "noSpecialCharacters" ->
            r.noSpecialCharacters = Param(TRUE) /\ \E i \in 1..Len(v) : v[i] \in {" ", "!"}
      [] rule = "noNumbers" ->
            r.noNumbers = Param(TRUE) /\ \E i \in 1..Len(v) : v[i] = "1"
      [] rule = "noLetters" ->
            r.noLetters = Param(TRUE) /\ \E i \in 1..Len(v) : v[i] = "a"

MessageOf(rule, r) ==
    CASE rule = "minLength" ->
            "Value must be at least " \o ToString(r.minLength.val) \o " characters long!"
      [] rule = "maxLength" ->
            "Value must be at most " \o ToString(r.maxLength.val) \o " characters long!"
      [] rule = "match" -> "Value must match the following regex: " \o r.match.val
      [] rule = "noSpaces" -> "Value must not contain any spaces!"
      [] rule = "noSpecialCharacters" -> "Value must not contain any special characters!"
      [] rule = "noNumbers" -> "Value must not contain any numbers!"
      [] rule = "noLetters" -> "Value must not contain any letters!"

ViolatedRules(v, r) == {i \in 1..Len(RuleOrder) : Violated(RuleOrder[i], v, r)}

(* C15: checkRules fails exactly when the value violates at least one rule  *)
(* that is present with a truthy parameter, and the failure is that of the  *)
(* first violated rule in the order minLength, maxLength, match, noSpaces,  *)
(* noSpecialCharacters, noNumbers, noLetters; otherwise it succeeds.        *)
FirstViolatedRuleFails ==
    last.op = "checkRules" =>
        LET bad == ViolatedRules(last.value, last.rules) IN
        IF bad = {}
        THEN last.ret.success
        ELSE /\ ~last.ret.success
             /\ last.ret.message =
                  MessageOf(RuleOrder[CHOOSE i \in bad : \A j \in bad : i <= j],
                            last.rules)

\* a value that violates noNumbers and noLetters and no rule before them
FirstViolatedRuleFails_Witness ==
    /\ last.op = "checkRules"
    /\ ViolatedRules(last.value, last.rules) = {6, 7}
    /\ last.rules.minLength = Param(2)
    /\ ~last.ret.success

\* the parameter as the rules object holds it, a falsy one taken out
Stripped(p, falsy) == IF p.set /\ p.val = falsy THEN NoParam(falsy) ELSE p

StrippedRules(r) ==
    [minLength |-> Stripped(r.minLength, 0), maxLength |-> Stripped(r.maxLength, 0),
     match |-> Stripped(r.match, ""),
     noSpaces |-> Stripped(r.noSpaces, FALSE),
     noSpecialCharacters |-> Stripped(r.noSpecialCharacters, FALSE),
     noNumbers |-> Stripped(r.noNumbers, FALSE),
     noLetters |-> Stripped(r.noLetters, FALSE)]

(* C16: a rule key present with a falsy or zero parameter is treated like   *)
(* an absent key: the result is the result for the rules without that key,  *)
(* so rules holding only such keys (minLength: 0, maxLength: 0, a boolean   *)
(* rule set to false) accept every value.                                   *)
FalsyRuleIsSkipped ==
    last.op = "checkRules" =>
        /\ last.ret = checkRules(last.value, StrippedRules(last.rules))
        /\ StrippedRules(last.rules) = NoRules => last.ret.success

\* a value of two characters with a digit passes maxLength: 0, noNumbers: false
FalsyRuleIsSkipped_Witness ==
    /\ last.op = "checkRules"
    /\ last.rules.maxLength = Param(0)
    /\ last.rules.minLength = Param(0)
    /\ last.rules.noNumbers = Param(FALSE)
    /\ StrippedRules(last.rules) = NoRules
    /\ Len(last.value) = 2
    /\ \E i \in 1..2 : last.value[i] = "1"
    /\ last.ret.success

\* the records in the root file
FileRecords == IF JSONparse(file).ok THEN SeqToSet(JSONparse(file).val) ELSE {}

(* C17: nothing locks or re-loads the root file: every successful add,      *)
(* remove and modify through one of two instances on the same file leaves   *)
(* the file holding that instance's in-memory sequence and the other        *)
(* instance's sequence as it was, so a record added through one instance    *)
(* can be gone from the file after a later call through the other.          *)
SaveOverwritesWithOwnData ==
    [][(last'.op \in {"add", "remove", "modify"} /\ last'.ret.success) =>
          /\ file' = JSONstringify(data')
          /\ other'.data = other.data
          /\ other'.state = other.state]_vars

\* the lost update: the instance at rest added r and still holds it, the
\* instance in use has never held r, and the call that has just succeeded
\* through the instance in use wrote a file without r
SaveOverwritesWithOwnData_Witness ==
    /\ last.op \in {"add", "remove", "modify"}
    /\ last.ret.success
    /\ state = "loaded"
    /\ other.state = "loaded"
    /\ \E r \in other.added[3 - other.active] \ other.held[other.active] :
          /\ r \in SeqToSet(other.data)
          /\ r \notin FileRecords
    /\ file = JSONstringify(data)

\* no two records of d hold the same value of field f
UniqueOn(d, f) == \A i, j \in 1..Len(d) : i # j => ObjGet(d[i], f) # ObjGet(d[j], f)

ReservedFieldsAreGenerated ==
    [][(Returns("add") /\ last'.ret.success) =>
          LET stored == data'[Len(data')]
              written == JSONparse(file').val
          IN /\ last'.id \in IDs
             /\ last'.token \in Tokens
             /\ Len(data') = Len(data) + 1
             /\ stored = last'.ret.user
             /\ ObjGet(stored, "id") = last'.id
             /\ ObjGet(stored, "token") = last'.token
             /\ Len(written) = Len(data')
             /\ ObjGet(written[Len(written)], "id") = last'.id
             /\ ObjGet(written[Len(written)], "token") = last'.token]_vars

\* a successful add whose field spec declares rules or noDuplicate on a
\* field named id
ReservedFieldsAreGenerated_Witness ==
    /\ Returned("add")
    /\ last.ret.success
    /\ \E i \in 1..Len(last.fields.obj) :
          /\ last.fields.obj[i].k = "id"
          /\ last.fields.obj[i].noDuplicate \/ last.fields.obj[i].hasRules
          /\ last.fields.obj[i].value # ObjGet(last.ret.user, "id")
    /\ ObjGet(data[Len(data)], "id") = last.id

====
